---- MODULE Spec2Model ----
(***************************************************************************)
(* The session lifecycle controller of the web viewer (src/src/App.tsx):   *)
(* _startStream, pollForSessionReady, setupStream, _resetStream and        *)
(* _endStream, run on one JavaScript event loop against a streaming        *)
(* backend.  Every action is one run-to-completion step of the event loop: *)
(* the synchronous code between two awaits (or up to the return), with     *)
(* every setState it makes.  An awaited backend call that has been issued  *)
(* and not answered is a position of the task that awaits it; the answer   *)
(* is the input of the step that resumes the task.                         *)
(***************************************************************************)
EXTENDS Integers, Sequences, FiniteSets, TLC

\* Bounds of the model: invocations of _startStream and of _resetStream.
MaxStarts == 2
MaxResets == 2

\* this.state.sessionId === "" (falsy): no session id is held.
NoSession == 0
\* Session ids the backend assigns, one fresh id per created session.
SessionIds == 1..MaxStarts

\* HTTP statuses of the backend session API.
StatusReady == 200
StatusPending == 202
StatusBadRequest == 400
\* The error statuses (> 400) the model lets the backend answer.
ErrorStatuses == {404, 500}

VARIABLES
  state,          \* this.state of the App component (the fields the lifecycle uses)
  createInFlight, \* _startStream invocations awaiting createStreamingSession
  created,        \* number of sessions the backend has created
  backend,        \* backend[s]: "none" | "pending" | "ready" | "destroyed"
  pollPc,         \* pollPc[s]: position of the pollForSessionReady chain of session s
  endQuery,       \* endQuery[s]: _endStream calls, const sessionId s, awaiting the query
  endDestroy,     \* endDestroy[s]: _endStream calls, const sessionId s, awaiting destroy
  starts,         \* number of _startStream invocations so far
  resets,         \* number of _resetStream invocations so far
  lastOp,         \* what the last step did (its calls, counted)
  setupDone,      \* sessions setupStream has been invoked with
  destroyIssued,  \* sessions destroyStreamingSession has been called for
  tornDown,       \* sessions whose _resetStream has run to its end (terminate() called)
  failedStreaming,\* sessions streaming when onStreamFailed was delivered
  endedSinceCreate \* a _resetStream has completed and no session was created since

\* The Window component (the remote-application event dispatcher).
VARIABLES
  source,         \* StreamConfig.source
  windowState,    \* this.state of the Window component
  kitTimers,      \* pending setTimeout callbacks of _pollForKitReady
  streamNo,       \* number of streams the transport has started (0: none yet)
  streamUp,       \* the stream streamNo is up (started and not torn down)
  startedCalls,   \* number of onStarted callbacks delivered so far
  responded,      \* streams on which a loadingStateResponse has been handled
  lastW           \* what the last step of the Window component did

\* The variables of the controller and of the Window component.
appVars ==
  <<state, createInFlight, created, backend, pollPc, endQuery, endDestroy, starts,
    resets, lastOp, setupDone, destroyIssued, tornDown, failedStreaming,
    endedSinceCreate>>
windowVars ==
  <<source, windowState, kitTimers, streamNo, streamUp, startedCalls, responded,
    lastW>>

vars == <<appVars, windowVars>>

(***************************************************************************)
(* Session descriptors (StreamItem.routes): a sequence of hosts in         *)
(* Object.keys order, each with its list of routes.                        *)
(***************************************************************************)
Route(d, p) == [description |-> d, source_port |-> p]
Host(h, rs) == [host |-> h, routes |-> rs]

DescBoth == <<Host("h1", <<Route("signaling", 1), Route("media", 2)>>)>>
DescSecondHost ==
  <<Host("h2", <<Route("media", 3), Route("other", 1),
                 Route("signaling", 2), Route("signaling", 1)>>),
    Host("h1", <<Route("signaling", 1), Route("media", 2)>>)>>
DescNoMedia == <<Host("h1", <<Route("signaling", 1)>>)>>
DescNoSignaling ==
  <<Host("h1", <<Route("other", 3), Route("media", 2)>>),
    Host("h2", <<Route("signaling", 1), Route("media", 2)>>)>>
DescNoRoutes == <<Host("h1", <<>>)>>
DescNoHosts == <<>>

DescriptorAt ==
  <<DescBoth, DescSecondHost, DescNoMedia, DescNoSignaling, DescNoRoutes, DescNoHosts>>
Descriptors == DOMAIN DescriptorAt
NoDescriptor == 0

\* The value find() gives when no element matches.
Undefined == [description |-> "undefined", source_port |-> 0]

\* Array.prototype.find with the predicate item.description === description.
RECURSIVE find(_, _)
find(routeData, description) ==
  IF routeData = <<>> THEN Undefined
  ELSE IF Head(routeData).description = description THEN Head(routeData)
  ELSE find(Tail(routeData), description)

\* The state the constructor builds and _resetState restores.
InitState ==
  [currentForm |-> "AppOnly",
   selectedApplicationProfile |-> "",
   streamStatus |-> "IDLE",
   connectionText |-> "",
   backendUrl |-> "",
   signalingserver |-> "",
   signalingport |-> 0,
   mediaserver |-> "",
   mediaport |-> 0,
   accessToken |-> "",
   sessionId |-> NoSession]

_resetState(st) == InitState

\* setupStream throws a TypeError when the descriptor has no host:
\* createdStream.routes[undefined].routes.
setupStreamThrows(routes) == routes = <<>>

\* setupStream with the signaling and media ports exchanged.
setupStream_swapped(st, sid, routes) ==
  LET serverIP == routes[1].host
      routeData == routes[1].routes
      signalingData == find(routeData, "signaling")
      mediaData == find(routeData, "media")
  IN IF signalingData = Undefined \/ mediaData = Undefined
     THEN st
     ELSE [st EXCEPT !.backendUrl = "streamServer/streaming/stream",
                     !.signalingserver = serverIP,
                     !.signalingport = mediaData.source_port,
                     !.mediaserver = serverIP,
                     !.mediaport = signalingData.source_port,
                     !.accessToken = "",
                     !.sessionId = sid,
                     !.currentForm = "Stream",
                     !.streamStatus = "INITIALIZED"]

\* setupStream without its check of signalingData and mediaData.
setupStream_noGuard(st, sid, routes) ==
  LET serverIP == routes[1].host
      routeData == routes[1].routes
      signalingData == find(routeData, "signaling")
      mediaData == find(routeData, "media")
  IN [st EXCEPT !.backendUrl = "streamServer/streaming/stream",
                !.signalingserver = serverIP,
                !.signalingport = signalingData.source_port,
                !.mediaserver = serverIP,
                !.mediaport = mediaData.source_port,
                !.accessToken = "",
                !.sessionId = sid,
                !.currentForm = "Stream",
                !.streamStatus = "INITIALIZED"]

\* setupStream(createdStream) applied to the state st, for createdStream with
\* id sid and the given routes (which has a first host).
setupStream(st, sid, routes) ==
  LET serverIP == routes[1].host
      routeData == routes[1].routes
      signalingData == find(routeData, "signaling")
      mediaData == find(routeData, "media")
  IN IF signalingData = Undefined \/ mediaData = Undefined
     THEN st
     ELSE [st EXCEPT !.backendUrl = "streamServer/streaming/stream",
                     !.signalingserver = serverIP,
                     !.signalingport = signalingData.source_port,
                     !.mediaserver = serverIP,
                     !.mediaport = mediaData.source_port,
                     !.accessToken = "",
                     !.sessionId = sid,
                     !.currentForm = "Stream",
                     !.streamStatus = "INITIALIZED"]

\* What a step did: the operation, the session and backend answer it handled,
\* the calls it made, and how the async function left the step.
Op(op, sid, status, desc, calls, result) ==
  [op |-> op, sid |-> sid, status |-> status, desc |-> desc,
   alerts |-> calls.alerts, setupStream |-> calls.setupStream,
   polls |-> calls.polls, queries |-> calls.queries, timers |-> calls.timers,
   destroys |-> calls.destroys, terminates |-> calls.terminates,
   retry |-> calls.retry, result |-> result]

\* The calls of a step: alert, setupStream, pollForSessionReady,
\* getStreamingSessionInfo, setTimeout, destroyStreamingSession and
\* AppStreamer.terminate; retry is 1 in a step of a pollForSessionReady that a
\* timer started.
NoCalls ==
  [alerts |-> 0, setupStream |-> 0, polls |-> 0, queries |-> 0, timers |-> 0,
   destroys |-> 0, terminates |-> 0, retry |-> 0]

\* What a step of the Window component did: the handler, the event_type and
\* payload.result of the event it handled, how many branches of the handler
\* ran, the loadingStateQuery messages sent, the setTimeout and setState calls
\* made, and how the handler ended.
WOp(op, eventType, payloadResult, eff) ==
  [op |-> op, event_type |-> eventType, payload_result |-> payloadResult,
   rows |-> eff.rows,
   queries |-> eff.queries, timers |-> eff.timers, writes |-> eff.writes,
   result |-> eff.result]

NoEffect ==
  [rows |-> 0, queries |-> 0, timers |-> 0, writes |-> 0, result |-> "return"]

\* The values of StreamConfig.source the constructor tells apart.
Sources == {"gfn", "stream", "local"}

\* The state the Window constructor builds.
InitWindowState(src) ==
  [isKitReady |-> FALSE,
   showStream |-> TRUE,
   showUI |-> FALSE,
   loadingText |-> IF src = "gfn" THEN "Log in to GeForce NOW to view stream"
                   ELSE IF src = "stream" THEN "Waiting for stream to initialize"
                   ELSE "Waiting for stream to begin",
   isLoading |-> src = "stream"]

\* The Window component as constructed, for a configured source.
WindowConstructed(src) ==
  /\ source = src
  /\ windowState = InitWindowState(src)
  /\ kitTimers = 0
  /\ streamNo = 0
  /\ streamUp = FALSE
  /\ startedCalls = 0
  /\ responded = {}
  /\ lastW = WOp("constructor", "", "", NoEffect)

AppConstructed ==
  /\ state = InitState
  /\ createInFlight = 0
  /\ created = 0
  /\ backend = [s \in SessionIds |-> "none"]
  /\ pollPc = [s \in SessionIds |-> "none"]
  /\ endQuery = [s \in SessionIds |-> 0]
  /\ endDestroy = [s \in SessionIds |-> 0]
  /\ starts = 0
  /\ resets = 0
  /\ lastOp = Op("constructor", NoSession, 0, NoDescriptor, NoCalls, "return")
  /\ setupDone = {}
  /\ destroyIssued = {}
  /\ tornDown = {}
  /\ failedStreaming = {}
  /\ endedSinceCreate = FALSE

\* The controller's specification leaves the Window component as constructed.
Init == AppConstructed /\ WindowConstructed("local")


Profiles == {"default"}

\* The status getStreamingSessionInfo answers for a session in backend state b.
SessionInfoStatus(b) ==
  IF b = "ready" THEN StatusReady
  ELSE IF b = "pending" THEN StatusPending
  ELSE 404

(***************************************************************************)
(* _startStream up to its await: two setState calls, then                  *)
(* createStreamingSession is issued.  The method has no guard on the       *)
(* current state.                                                          *)
(***************************************************************************)
StartStream ==
  /\ starts < MaxStarts
  /\ starts' = starts + 1
  /\ \E profile \in Profiles :
       state' = [state EXCEPT
                   !.currentForm = "IDLE",
                   !.selectedApplicationProfile = profile,
                   !.connectionText = "Attempting to create streaming session..."]
  /\ createInFlight' = createInFlight + 1
  /\ endedSinceCreate' = FALSE
  /\ lastOp' = Op("_startStream", NoSession, 0, NoDescriptor, NoCalls, "await")
  /\ UNCHANGED <<created, backend, pollPc, endQuery, endDestroy, resets, setupDone,
                 destroyIssued, tornDown, failedStreaming>>

\* The setState of _startStream after a create response that is not > 400.
SessionStored(st, id) ==
  [st EXCEPT !.sessionId = id,
             !.streamStatus = "INITIALIZING",
             !.connectionText = "Attempting to load stream..."]

(***************************************************************************)
(* _startStream after its await, for a create response with the given      *)
(* status.  On 200 and 202 the backend has created session sid and data is *)
(* its StreamItem (with routes DescriptorAt[d] on 200).  On an error       *)
(* status data is no StreamItem: body "none" is data undefined (reading    *)
(* data.id throws), body "error" is an error object without id and routes  *)
(* (id is undefined, and setupStream throws on Object.keys(undefined)).    *)
(* The result: the new state, whether a session was created and in which   *)
(* backend state, whether pollForSessionReady was called, the calls made.  *)
(***************************************************************************)
StartStreamContinuation(st, status, sid, d, body) ==
  IF status > StatusBadRequest
  THEN [state |-> _resetState(st), session |-> "none", poll |-> FALSE,
        calls |-> [NoCalls EXCEPT !.alerts = 1], result |-> "return"]
  ELSE IF status = StatusBadRequest
  THEN IF body = "none"
       THEN [state |-> st, session |-> "none", poll |-> FALSE,
             calls |-> NoCalls, result |-> "throw"]
       ELSE [state |-> SessionStored(st, NoSession), session |-> "none",
             poll |-> FALSE, calls |-> [NoCalls EXCEPT !.setupStream = 1],
             result |-> "throw"]
  ELSE IF status = StatusPending
  THEN [state |-> SessionStored(st, sid), session |-> "pending", poll |-> TRUE,
        calls |-> [NoCalls EXCEPT !.polls = 1, !.queries = 1],
        result |-> "return"]
  ELSE [state |-> IF setupStreamThrows(DescriptorAt[d])
                  THEN SessionStored(st, sid)
                  ELSE setupStream(SessionStored(st, sid), sid, DescriptorAt[d]),
        session |-> "ready", poll |-> FALSE,
        calls |-> [NoCalls EXCEPT !.setupStream = 1],
        result |-> IF setupStreamThrows(DescriptorAt[d]) THEN "throw" ELSE "return"]

\* The create responses: a status, with the routes of the StreamItem on 200 and
\* the shape of the body on 400.
CreateResponses ==
  {[status |-> StatusReady, d |-> d, body |-> "item"] : d \in Descriptors}
  \cup {[status |-> StatusPending, d |-> NoDescriptor, body |-> "item"]}
  \cup {[status |-> StatusBadRequest, d |-> NoDescriptor, body |-> b] :
          b \in {"none", "error"}}
  \cup {[status |-> s, d |-> NoDescriptor, body |-> "error"] :
          s \in ErrorStatuses}

StartStreamResume ==
  /\ createInFlight > 0
  /\ createInFlight' = createInFlight - 1
  /\ \E resp \in CreateResponses :
       LET sid == created + 1
           out == StartStreamContinuation(state, resp.status, sid, resp.d, resp.body)
           isNew == out.session # "none"
       IN /\ state' = out.state
          /\ created' = IF isNew THEN sid ELSE created
          /\ backend' = IF isNew THEN [backend EXCEPT ![sid] = out.session] ELSE backend
          /\ pollPc' = IF out.poll THEN [pollPc EXCEPT ![sid] = "first"] ELSE pollPc
          /\ setupDone' = IF isNew /\ out.calls.setupStream = 1
                          THEN setupDone \cup {sid}
                          ELSE setupDone
          /\ endedSinceCreate' = IF isNew THEN FALSE ELSE endedSinceCreate
          /\ lastOp' = Op("_startStream.resume", IF isNew THEN sid ELSE NoSession,
                          resp.status, resp.d, out.calls, out.result)
  /\ UNCHANGED <<endQuery, endDestroy, starts, resets, destroyIssued, tornDown,
                 failedStreaming>>

\* The backend finishes provisioning the pending session s.
BackendSessionReadyOf(s) ==
  /\ backend[s] = "pending"
  /\ backend' = [backend EXCEPT ![s] = "ready"]
  /\ lastOp' = Op("backend.ready", s, 0, NoDescriptor, NoCalls, "return")
  /\ UNCHANGED <<state, createInFlight, created, pollPc, endQuery, endDestroy,
                 starts, resets, setupDone, destroyIssued, tornDown,
                 failedStreaming, endedSinceCreate>>

BackendSessionReady == \E s \in SessionIds : BackendSessionReadyOf(s)

(***************************************************************************)
(* pollForSessionReady(s) after its await; pollPc[s] is "first" for the    *)
(* call _startStream made and "query" for a call a timer made.  outcome    *)
(* "throw" is a rejected getStreamingSessionInfo: the catch logs it and    *)
(* the chain ends.  On 200 setupStream runs inside the try (its TypeError  *)
(* is caught as well); on any other status a 10 s timer is set, with no    *)
(* look at this.state.                                                     *)
(***************************************************************************)
pollForSessionReadyNext_noRetry(status) == "ended"

pollForSessionReadyNext(status) ==
  IF status = StatusReady THEN "ended" ELSE "timer"

\* The awaited query of pollForSessionReady(s) completes: it rejects, or it
\* answers with the backend's status for s and, on 200, the routes of d.
PollResponseOf(s, outcome, d) ==
    /\ pollPc[s] \in {"first", "query"}
    /\ (outcome = "throw" \/ backend[s] # "ready") => d = 1
    /\ LET status == SessionInfoStatus(backend[s])
           next == IF outcome = "throw" THEN "ended"
                   ELSE pollForSessionReadyNext(status)
           setup == outcome = "answer" /\ next = "ended"
       IN /\ pollPc' = [pollPc EXCEPT ![s] = next]
          /\ state' = IF setup /\ ~setupStreamThrows(DescriptorAt[d])
                      THEN setupStream(state, s, DescriptorAt[d])
                      ELSE state
          /\ setupDone' = IF setup THEN setupDone \cup {s} ELSE setupDone
          /\ lastOp' = Op("pollForSessionReady.resume", s,
                          IF outcome = "throw" THEN 0 ELSE status,
                          IF setup THEN d ELSE NoDescriptor,
                          [NoCalls EXCEPT
                             !.setupStream = IF setup THEN 1 ELSE 0,
                             !.timers = IF next = "timer" THEN 1 ELSE 0,
                             !.retry = IF pollPc[s] = "query" THEN 1 ELSE 0],
                          "return")
    /\ UNCHANGED <<createInFlight, created, backend, endQuery, endDestroy, starts,
                   resets, destroyIssued, tornDown, failedStreaming,
                   endedSinceCreate>>

PollResponse ==
  \E s \in SessionIds, outcome \in {"answer", "throw"}, d \in Descriptors :
    PollResponseOf(s, outcome, d)

\* The retry timer of s fires: pollForSessionReady(s) runs up to its await.
PollTimerFiresOf(s) ==
  /\ pollPc[s] = "timer"
  /\ pollPc' = [pollPc EXCEPT ![s] = "query"]
  /\ lastOp' = Op("pollForSessionReady", s, 0, NoDescriptor,
                  [NoCalls EXCEPT !.polls = 1, !.queries = 1, !.retry = 1],
                  "await")
  /\ UNCHANGED <<state, createInFlight, created, backend, endQuery, endDestroy,
                 starts, resets, setupDone, destroyIssued, tornDown,
                 failedStreaming, endedSinceCreate>>

PollTimerFires == \E s \in SessionIds : PollTimerFiresOf(s)

(***************************************************************************)
(* _resetStream.  Its last two statements, _resetState() and               *)
(* AppStreamer.terminate(), run when the awaited _endStream has returned;  *)
(* a rejected backend call rejects _endStream and _resetStream with it.    *)
(***************************************************************************)
ResetStreamFinish(sid, op, status, calls) ==
  /\ state' = _resetState(state)
  /\ tornDown' = IF sid = NoSession THEN tornDown ELSE tornDown \cup {sid}
  /\ endedSinceCreate' = TRUE
  /\ lastOp' = Op(op, sid, status, NoDescriptor,
                  [calls EXCEPT !.terminates = 1], "return")

\* _resetStream is invoked: _endStream reads this.state.sessionId and either
\* returns at once (the rest of _resetStream follows in the same turn of the
\* event loop) or issues getStreamingSessionInfo and awaits it.
ResetStreamInvoke(trigger) ==
  /\ resets < MaxResets
  /\ resets' = resets + 1
  /\ LET sid == state.sessionId
     IN /\ failedStreaming' =
             IF trigger = "onStreamFailed" /\ sid # NoSession
                /\ state.streamStatus = "INITIALIZED"
             THEN failedStreaming \cup {sid}
             ELSE failedStreaming
        /\ IF sid = NoSession
           THEN /\ ResetStreamFinish(sid, trigger, 0, NoCalls)
                /\ UNCHANGED endQuery
           ELSE /\ endQuery' = [endQuery EXCEPT ![sid] = @ + 1]
                /\ lastOp' = Op(trigger, sid, 0, NoDescriptor,
                                [NoCalls EXCEPT !.queries = 1], "await")
                /\ UNCHANGED <<state, tornDown, endedSinceCreate>>
  /\ UNCHANGED <<createInFlight, created, backend, pollPc, endDestroy, starts,
                 setupDone, destroyIssued>>

\* "Button press for ending stream".
EndStreamPressed == ResetStreamInvoke("_resetStream")

\* The transport adapter calls the onStreamFailed prop, which is _resetStream.
OnStreamFailed == ResetStreamInvoke("onStreamFailed")

\* _endStream after its first await (the session query).
EndStreamQueryResponse ==
  \E sid \in SessionIds, outcome \in {"answer", "throw"} :
    /\ endQuery[sid] > 0
    /\ endQuery' = [endQuery EXCEPT ![sid] = @ - 1]
    /\ LET status == SessionInfoStatus(backend[sid])
       IN IF outcome = "throw"
          THEN /\ lastOp' = Op("_endStream.query", sid, 0, NoDescriptor, NoCalls, "throw")
               /\ UNCHANGED <<state, endDestroy, destroyIssued, tornDown,
                              endedSinceCreate>>
          ELSE IF status # StatusReady
          THEN /\ ResetStreamFinish(sid, "_endStream.query", status, NoCalls)
               /\ UNCHANGED <<endDestroy, destroyIssued>>
          ELSE /\ endDestroy' = [endDestroy EXCEPT ![sid] = @ + 1]
               /\ destroyIssued' = destroyIssued \cup {sid}
               /\ lastOp' = Op("_endStream.query", sid, status, NoDescriptor,
                               [NoCalls EXCEPT !.destroys = 1], "await")
               /\ UNCHANGED <<state, tornDown, endedSinceCreate>>
    /\ UNCHANGED <<createInFlight, created, backend, pollPc, starts, resets,
                   setupDone, failedStreaming>>

\* _endStream after its second await (the destroy call): the backend either
\* destroys the session, or answers with a detail (alerted), or the call rejects.
EndStreamDestroyResponse ==
  \E sid \in SessionIds, outcome \in {"ok", "detail", "throw"} :
    /\ endDestroy[sid] > 0
    /\ endDestroy' = [endDestroy EXCEPT ![sid] = @ - 1]
    /\ IF outcome = "throw"
       THEN /\ lastOp' = Op("_endStream.destroy", sid, 0, NoDescriptor, NoCalls, "throw")
            /\ UNCHANGED <<state, backend, tornDown, endedSinceCreate>>
       ELSE /\ backend' = IF outcome = "ok"
                          THEN [backend EXCEPT ![sid] = "destroyed"]
                          ELSE backend
            /\ ResetStreamFinish(sid, "_endStream.destroy", 0,
                 [NoCalls EXCEPT !.alerts = IF outcome = "detail" THEN 1 ELSE 0])
    /\ UNCHANGED <<createInFlight, created, pollPc, endQuery, starts, resets,
                   setupDone, destroyIssued, failedStreaming>>

\* The steps of the controller; none touches the Window component's state.
Next ==
  \/ UNCHANGED windowVars /\ StartStream
  \/ UNCHANGED windowVars /\ StartStreamResume
  \/ UNCHANGED windowVars /\ BackendSessionReady
  \/ UNCHANGED windowVars /\ PollResponse
  \/ UNCHANGED windowVars /\ PollTimerFires
  \/ UNCHANGED windowVars /\ EndStreamPressed
  \/ UNCHANGED windowVars /\ OnStreamFailed
  \/ UNCHANGED windowVars /\ EndStreamQueryResponse
  \/ UNCHANGED windowVars /\ EndStreamDestroyResponse

Spec == Init /\ [][Next]_vars

TypeOK ==
  /\ state.sessionId \in 0..MaxStarts
  /\ createInFlight \in 0..MaxStarts
  /\ \A s \in SessionIds : backend[s] \in {"none", "pending", "ready", "destroyed"}

(***************************************************************************)
(* Properties of the session lifecycle.                                    *)
(***************************************************************************)

\* The controller is Idle: every field as the constructor set it.
Idle == state = InitState

\* The steps that invoke _resetStream, and the steps that resume its _endStream.
ResetInvokeOps == {"_resetStream", "onStreamFailed"}
ResetResumeOps == {"_endStream.query", "_endStream.destroy"}
PollOps == {"pollForSessionReady", "pollForSessionReady.resume"}

\* The route list of the first host of descriptor d has a route with this
\* description (and this port).
HasRoute(d, description) ==
  /\ DescriptorAt[d] # <<>>
  /\ \E i \in DOMAIN DescriptorAt[d][1].routes :
       DescriptorAt[d][1].routes[i].description = description
HasRouteAt(d, description, port) ==
  /\ DescriptorAt[d] # <<>>
  /\ \E i \in DOMAIN DescriptorAt[d][1].routes :
       /\ DescriptorAt[d][1].routes[i].description = description
       /\ DescriptorAt[d][1].routes[i].source_port = port
LacksRoute(d) == ~HasRoute(d, "signaling") \/ ~HasRoute(d, "media")

\* C1: once a _resetStream for session s has run to its end, no step of the
\* pollForSessionReady chain of s issues a getStreamingSessionInfo query or
\* sets a retry timer.
C1_PollChainStopsAfterTeardown ==
  (lastOp.op \in PollOps /\ lastOp.sid \in tornDown)
    => (lastOp.queries = 0 /\ lastOp.timers = 0)

\* C2: every _resetStream invocation, however its backend calls end (an answer
\* or a rejection), ends with the state reset to Idle and
\* AppStreamer.terminate() called.
C2_ResetAlwaysCleansUp ==
  (lastOp.op \in ResetInvokeOps \cup ResetResumeOps
     /\ lastOp.result \in {"return", "throw"})
    => (Idle /\ lastOp.terminates = 1)

\* C3: a create response with status >= 400 (400 included) ends _startStream
\* with the controller Idle, without setupStream or pollForSessionReady, and
\* with exactly one alert.
C3_CreateErrorEndsIdle ==
  (lastOp.op = "_startStream.resume" /\ lastOp.status >= 400)
    => /\ Idle
       /\ lastOp.result = "return"
       /\ lastOp.setupStream = 0
       /\ lastOp.polls = 0
       /\ lastOp.alerts = 1

\* C4: a poll answer of 200 (after any number of retries) invokes setupStream,
\* ends the chain, and no session has setupStream invoked for it twice; when
\* the first host has both routes, the stored signaling and media ports are
\* source ports of routes of the first host so described.
C4_Step ==
  /\ (lastOp'.setupStream = 1 /\ lastOp'.sid # NoSession)
       => lastOp'.sid \notin setupDone
  /\ (lastOp'.op = "pollForSessionReady.resume" /\ lastOp'.status = StatusReady)
       => /\ lastOp'.setupStream = 1
          /\ lastOp'.timers = 0
          /\ pollPc'[lastOp'.sid] = "ended"
          /\ ~LacksRoute(lastOp'.desc)
               => /\ state'.sessionId = lastOp'.sid
                  /\ HasRouteAt(lastOp'.desc, "signaling", state'.signalingport)
                  /\ HasRouteAt(lastOp'.desc, "media", state'.mediaport)
C4_SetupOnceWithResolvedPorts == [][C4_Step]_vars

\* C4 witness: a 200 answer to a retried poll of a session created with 202,
\* with the ports of the first host's routes stored.
C4_Witness ==
  /\ lastOp.op = "pollForSessionReady.resume"
  /\ lastOp.status = StatusReady
  /\ lastOp.retry = 1
  /\ lastOp.desc = 2
  /\ state.streamStatus = "INITIALIZED"
  /\ state.signalingport = 2
  /\ state.mediaport = 3

\* C5: setupStream with a descriptor whose first host lacks a signaling or a
\* media route does not make the controller Streaming and writes no connection
\* parameter.
C5_Step ==
  (lastOp'.setupStream = 1 /\ lastOp'.desc \in Descriptors /\ LacksRoute(lastOp'.desc))
    => /\ state'.streamStatus = "INITIALIZED" => state.streamStatus = "INITIALIZED"
       /\ state'.currentForm = "Stream" => state.currentForm = "Stream"
       /\ state'.backendUrl = state.backendUrl
       /\ state'.signalingserver = state.signalingserver
       /\ state'.signalingport = state.signalingport
       /\ state'.mediaserver = state.mediaserver
       /\ state'.mediaport = state.mediaport
C5_MissingRouteAbortsAttach == [][C5_Step]_vars

\* C5 witness: setupStream has just run on a ready descriptor without a media
\* route, and the controller still awaits the stream.
C5_Witness ==
  /\ lastOp.setupStream = 1
  /\ lastOp.desc = 3
  /\ state.streamStatus = "INITIALIZING"
  /\ state.backendUrl = ""

\* C6: destroyStreamingSession is never called for a session id it has been
\* called for before.
C6_Step == lastOp'.destroys = 1 => lastOp'.sid \notin destroyIssued
C6_NeverDoubleDestroyed == [][C6_Step]_vars

\* C7: a _resetStream invoked after an earlier one has completed, with no
\* _startStream and no session created in between, issues no backend call and
\* returns.
C7_SecondEndSessionIsNoOp ==
  (lastOp.op \in ResetInvokeOps /\ endedSinceCreate)
    => (lastOp.queries = 0 /\ lastOp.destroys = 0 /\ lastOp.result = "return")

\* C8: for a session that was streaming when onStreamFailed was delivered,
\* AppStreamer.terminate() is not called a second time.
C8_Step ==
  (lastOp'.terminates = 1 /\ lastOp'.sid \in failedStreaming')
    => lastOp'.sid \notin tornDown
C8_TerminateOncePerFailedSession == [][C8_Step]_vars

\* C9: after a terminal error (a create status >= 400, a setupStream on a
\* descriptor lacking a route, the end of a teardown of a session whose
\* transport failed) the controller is not left in INITIALIZING with a session
\* id held (the claim's last clause, which being Idle implies).
C9_TerminalErrorsLeaveNoSession ==
  (\/ lastOp.op = "_startStream.resume" /\ lastOp.status >= 400
   \/ lastOp.setupStream = 1 /\ lastOp.desc \in Descriptors /\ LacksRoute(lastOp.desc)
   \/ /\ lastOp.op \in ResetResumeOps
      /\ lastOp.sid \in failedStreaming
      /\ lastOp.result \in {"return", "throw"})
    => ~(state.streamStatus = "INITIALIZING" /\ state.sessionId # NoSession)

\* C10: at most one session is active: being created, or created, not
\* destroyed, and held by the controller or polled for.
ActiveSessions ==
  {s \in SessionIds :
     /\ backend[s] \in {"pending", "ready"}
     /\ (state.sessionId = s \/ pollPc[s] \in {"first", "timer", "query"})}
C10_AtMostOneActiveSession ==
  createInFlight + Cardinality(ActiveSessions) <= 1

(***************************************************************************)
(* The Window component (src/unnamed/part_000): the dispatcher of the      *)
(* events the streamed Kit application sends.  App.render always renders   *)
(* one Window, so one instance, with one this.state, serves every stream.  *)
(* Each action is one callback of the transport adapter or one timer       *)
(* callback, run to completion.  Events have the declared shape            *)
(* {event_type, payload}; a falsy event is the null event.                 *)
(***************************************************************************)

\* Bound of the model: onStarted callbacks delivered.
MaxStartedCalls == 3

EventTypes ==
  {"openedStageResult", "loadingStateResponse", "updateProgressAmount",
   "updateProgressActivity", "somethingElse"}
KnownEventTypes == EventTypes \ {"somethingElse"}

\* The inbound events: event_type, payload.result and messageRecipient (an
\* event addressed to "kit" carries its JSON text in event.data).
Events ==
  [event_type : EventTypes, result : {"success", "error"},
   messageRecipient : {"kit", "client"}, null : {FALSE}]
NullEvent ==
  [event_type |-> "", result |-> "", messageRecipient |-> "", null |-> TRUE]

\* The effect of a handler on the state st: the new state and the calls made.
Effect(st, rows, queries, timers, writes) ==
  [state |-> st, rows |-> rows, queries |-> queries, timers |-> timers,
   writes |-> writes, result |-> "return"]

\* _pollForKitReady without its check of isKitReady.
_pollForKitReady_noCheck(st) == Effect(st, 0, 1, 1, 0)

\* _pollForKitReady: return when Kit is ready, else _queryLoadingState() and
\* setTimeout(() => this._pollForKitReady(), 3000).
_pollForKitReady(st) ==
  IF st.isKitReady = TRUE THEN Effect(st, 0, 0, 0, 0)
  ELSE Effect(st, 0, 1, 1, 0)

\* The openedStageResult branch querying on every result.
openedStageResult_anyResult(st, event) == Effect(st, 1, 1, 0, 0)

\* The openedStageResult branch of _handleCustomEvent.
openedStageResult(st, event) ==
  IF event.result = "success" THEN Effect(st, 1, 1, 0, 0)
  ELSE Effect(st, 1, 0, 0, 0)

\* The loadingStateResponse branch without its check of isKitReady.
loadingStateResponse_noCheck(st, event) ==
  Effect([st EXCEPT !.isKitReady = TRUE], 1, 1, 0, 1)

\* The loadingStateResponse branch with a second _queryLoadingState() after
\* its if.
loadingStateResponse_queryTwice(st, event) ==
  IF st.isKitReady = FALSE
  THEN Effect([st EXCEPT !.isKitReady = TRUE], 1, 2, 0, 1)
  ELSE Effect(st, 1, 1, 0, 0)

\* The loadingStateResponse branch of _handleCustomEvent.
loadingStateResponse(st, event) ==
  IF st.isKitReady = FALSE
  THEN Effect([st EXCEPT !.isKitReady = TRUE], 1, 1, 0, 1)
  ELSE Effect(st, 1, 0, 0, 0)

\* The updateProgressAmount branch of _handleCustomEvent: a log line.
updateProgressAmount(st, event) == Effect(st, 1, 0, 0, 0)

\* The updateProgressActivity branch without its check of loadingText.
updateProgressActivity_noCheck(st, event) ==
  Effect([st EXCEPT !.loadingText = "Loading Asset...", !.isLoading = TRUE],
         1, 0, 0, 1)

\* The updateProgressActivity branch of _handleCustomEvent.
updateProgressActivity(st, event) ==
  IF st.loadingText # "Loading Asset..."
  THEN Effect([st EXCEPT !.loadingText = "Loading Asset...", !.isLoading = TRUE],
              1, 0, 0, 1)
  ELSE Effect(st, 1, 0, 0, 0)

\* An unnamed event_type answered with a query.
otherEvent_query(st, event) == Effect(st, 0, 1, 0, 0)

\* An event_type no branch names: nothing runs.
otherEvent(st, event) == Effect(st, 0, 0, 0, 0)

\* _handleCustomEvent: the if / else-if chain on event.event_type.  The
\* closing block on event.messageRecipient === "kit" only logs.
_handleCustomEvent(st, event) ==
  IF event.null THEN Effect(st, 0, 0, 0, 0)
  ELSE IF event.event_type = "openedStageResult" THEN openedStageResult(st, event)
  ELSE IF event.event_type = "loadingStateResponse"
  THEN loadingStateResponse(st, event)
  ELSE IF event.event_type = "updateProgressAmount"
  THEN updateProgressAmount(st, event)
  ELSE IF event.event_type = "updateProgressActivity"
  THEN updateProgressActivity(st, event)
  ELSE otherEvent(st, event)

\* _onLoggedIn: in "gfn" mode the log-in message is replaced.
_onLoggedIn(st, src) ==
  IF src = "gfn"
  THEN Effect([st EXCEPT !.loadingText = "Waiting for stream to begin",
                         !.isLoading = FALSE], 0, 0, 0, 1)
  ELSE Effect(st, 0, 0, 0, 0)

\* The transport adapter calls onStarted: for a new stream when none is up,
\* or once more for the stream that is up.  _onStreamStarted calls
\* _pollForKitReady.
OnStreamStarted ==
  /\ startedCalls < MaxStartedCalls
  /\ startedCalls' = startedCalls + 1
  /\ streamNo' = IF streamUp THEN streamNo ELSE streamNo + 1
  /\ streamUp' = TRUE
  /\ LET eff == _pollForKitReady(windowState)
     IN /\ windowState' = eff.state
        /\ kitTimers' = kitTimers + eff.timers
        /\ lastW' = WOp("_onStreamStarted", "", "", eff)
  /\ UNCHANGED <<source, responded>>

\* The controller tears the stream down (_resetStream): the props change and
\* AppStreamer.terminate() runs; the Window's state and timers are not touched.
StreamTornDown ==
  /\ streamUp
  /\ streamUp' = FALSE
  /\ lastW' = WOp("_resetStream", "", "", NoEffect)
  /\ UNCHANGED <<source, windowState, kitTimers, streamNo, startedCalls, responded>>

\* A timer set by _pollForKitReady fires and calls it again.
KitTimerFires ==
  /\ kitTimers > 0
  /\ LET eff == _pollForKitReady(windowState)
     IN /\ windowState' = eff.state
        /\ kitTimers' = kitTimers - 1 + eff.timers
        /\ lastW' = WOp("_pollForKitReady", "", "", eff)
  /\ UNCHANGED <<source, streamNo, streamUp, startedCalls, responded>>

\* The transport adapter delivers an event of the stream that is up.
HandleCustomEvent ==
  /\ streamUp
  /\ \E event \in Events \cup {NullEvent} :
       LET eff == _handleCustomEvent(windowState, event)
       IN /\ windowState' = eff.state
          /\ responded' = IF event.event_type = "loadingStateResponse"
                          THEN responded \cup {streamNo}
                          ELSE responded
          /\ lastW' = WOp("_handleCustomEvent", event.event_type, event.result, eff)
  /\ UNCHANGED <<source, kitTimers, streamNo, streamUp, startedCalls>>

\* The transport adapter reports a log-in.
OnLoggedIn ==
  /\ LET eff == _onLoggedIn(windowState, source)
     IN /\ windowState' = eff.state
        /\ lastW' = WOp("_onLoggedIn", "", "", eff)
  /\ UNCHANGED <<source, kitTimers, streamNo, streamUp, startedCalls, responded>>

\* onFocus and onBlur: a log line each.
HandleAppStreamFocusBlur ==
  /\ \E op \in {"_handleAppStreamFocus", "_handleAppStreamBlur"} :
       lastW' = WOp(op, "", "", NoEffect)
  /\ UNCHANGED <<source, windowState, kitTimers, streamNo, streamUp, startedCalls,
                 responded>>

InitWindow == AppConstructed /\ \E src \in Sources : WindowConstructed(src)

\* The steps of the Window component; none touches the controller's state.
NextWindow ==
  \/ UNCHANGED appVars /\ OnStreamStarted
  \/ UNCHANGED appVars /\ StreamTornDown
  \/ UNCHANGED appVars /\ KitTimerFires
  \/ UNCHANGED appVars /\ HandleCustomEvent
  \/ UNCHANGED appVars /\ OnLoggedIn
  \/ UNCHANGED appVars /\ HandleAppStreamFocusBlur

SpecWindow == InitWindow /\ [][NextWindow]_vars

(***************************************************************************)
(* Properties of the dispatcher.                                           *)
(***************************************************************************)

\* C11: on every onStarted callback of a stream on which no
\* loadingStateResponse has been handled yet, a loadingStateQuery is sent at
\* once and the next one is scheduled.
C11_StartedBeginsPoll ==
  (lastW.op = "_onStreamStarted" /\ streamNo \notin responded)
    => (lastW.queries = 1 /\ lastW.timers = 1)

\* C12: with isKitReady true, a firing _pollForKitReady timer sends no
\* loadingStateQuery and sets no further timer.
C12_PollSelfTerminates ==
  (lastW.op = "_pollForKitReady" /\ windowState.isKitReady)
    => (lastW.queries = 0 /\ lastW.timers = 0)

\* C12 witness: after a loadingStateResponse the last pending timer has fired
\* and the chain has ended.
C12_Witness ==
  /\ lastW.op = "_pollForKitReady"
  /\ windowState.isKitReady
  /\ responded # {}
  /\ kitTimers = 0

\* C13: isKitReady changes only in the handling of a loadingStateResponse
\* received while it is false, which sets it to true, changes nothing else and
\* sends one loadingStateQuery; a loadingStateResponse received while it is
\* true changes no field and sends nothing.
C13_Step ==
  LET response == /\ lastW'.op = "_handleCustomEvent"
                  /\ lastW'.event_type = "loadingStateResponse"
  IN /\ windowState'.isKitReady # windowState.isKitReady
          => (response /\ windowState.isKitReady = FALSE)
     /\ (response /\ windowState.isKitReady = FALSE)
          => /\ windowState' = [windowState EXCEPT !.isKitReady = TRUE]
             /\ lastW'.queries = 1
     /\ (response /\ windowState.isKitReady = TRUE)
          => /\ windowState' = windowState
             /\ lastW'.queries = 0
             /\ lastW'.writes = 0
C13_KitReadySetOnce == [][C13_Step]_vars

\* C13 witness: a loadingStateResponse handled with Kit already ready.
C13_Witness ==
  /\ lastW.op = "_handleCustomEvent"
  /\ lastW.event_type = "loadingStateResponse"
  /\ lastW.queries = 0
  /\ windowState.isKitReady

\* C14: updateProgressActivity writes loadingText "Loading Asset..." and
\* isLoading true when loadingText differs from "Loading Asset...", and writes
\* nothing otherwise; received right after another updateProgressActivity it
\* writes nothing.
C14_Step ==
  LET activity(w) == /\ w.op = "_handleCustomEvent"
                     /\ w.event_type = "updateProgressActivity"
  IN /\ (activity(lastW') /\ windowState.loadingText # "Loading Asset...")
          => /\ windowState' = [windowState EXCEPT !.loadingText = "Loading Asset...",
                                                   !.isLoading = TRUE]
             /\ lastW'.writes = 1
     /\ (activity(lastW') /\ windowState.loadingText = "Loading Asset...")
          => /\ windowState' = windowState
             /\ lastW'.writes = 0
     /\ (activity(lastW) /\ activity(lastW')) => lastW'.writes = 0
C14_ProgressActivityIdempotent == [][C14_Step]_vars

\* C14 witness: an updateProgressActivity that found the text already set.
C14_Witness ==
  /\ lastW.op = "_handleCustomEvent"
  /\ lastW.event_type = "updateProgressActivity"
  /\ lastW.writes = 0
  /\ windowState.loadingText = "Loading Asset..."
  /\ windowState.isLoading

\* C15: an openedStageResult sends one loadingStateQuery when payload.result
\* is "success" and none otherwise, and changes no state field either way.
C15_Step ==
  (lastW'.op = "_handleCustomEvent" /\ lastW'.event_type = "openedStageResult")
    => /\ windowState' = windowState
       /\ lastW'.writes = 0
       /\ lastW'.queries = IF lastW'.payload_result = "success" THEN 1 ELSE 0
C15_OpenedStageResult == [][C15_Step]_vars

\* C15 witness: a failed openedStageResult handled without a query.
C15_Witness ==
  /\ lastW.op = "_handleCustomEvent"
  /\ lastW.event_type = "openedStageResult"
  /\ lastW.payload_result = "error"
  /\ lastW.queries = 0

\* C16: one handled event runs at most one branch of the handler and sends at
\* most one loadingStateQuery.
C16_AtMostOneRowOneQuery ==
  lastW.op = "_handleCustomEvent" => (lastW.rows <= 1 /\ lastW.queries <= 1)

\* C16 witness: the first loadingStateResponse, answered with one query.
C16_Witness ==
  /\ lastW.op = "_handleCustomEvent"
  /\ lastW.event_type = "loadingStateResponse"
  /\ lastW.rows = 1
  /\ lastW.queries = 1

\* C17: an event whose event_type no branch names, and an
\* updateProgressAmount, change no state field, send nothing, set no timer
\* and return normally.
C17_Step ==
  (/\ lastW'.op = "_handleCustomEvent"
   /\ lastW'.event_type \notin
        {"openedStageResult", "loadingStateResponse", "updateProgressActivity", ""})
    => /\ windowState' = windowState
       /\ kitTimers' = kitTimers
       /\ lastW'.queries = 0
       /\ lastW'.timers = 0
       /\ lastW'.writes = 0
       /\ lastW'.result = "return"
C20_AtMostOnePollChain == kitTimers <= 1

(***************************************************************************)
(* The readiness poll with a cooperating backend: no _resetStream is       *)
(* invoked, no getStreamingSessionInfo call rejects, and a 200 answer      *)
(* carries a descriptor whose first host has both routes.  A set timer     *)
(* fires, an issued query is answered, and a pending session is            *)
(* provisioned in the end.                                                 *)
(***************************************************************************)
PollAnswerOf(s) ==
  \E d \in {e \in Descriptors : ~LacksRoute(e)} : PollResponseOf(s, "answer", d)

PollAnswer == \E s \in SessionIds : PollAnswerOf(s)

NextLive ==
  \/ UNCHANGED windowVars /\ StartStream
  \/ UNCHANGED windowVars /\ StartStreamResume
  \/ UNCHANGED windowVars /\ BackendSessionReady
  \/ UNCHANGED windowVars /\ PollAnswer
  \/ UNCHANGED windowVars /\ PollTimerFires

FairLive ==
  \A s \in SessionIds :
    /\ WF_vars(UNCHANGED windowVars /\ BackendSessionReadyOf(s))
    /\ WF_vars(UNCHANGED windowVars /\ PollAnswerOf(s))
    /\ WF_vars(UNCHANGED windowVars /\ PollTimerFiresOf(s))

SpecLive == Init /\ [][NextLive]_vars /\ FairLive

\* The readiness poll of session s is under way.
Polling(s) == pollPc[s] \in {"first", "timer", "query"}

\* C18: every answer to the readiness query with a status other than 200 sets
\* the retry timer again, whatever came before, and changes no state field;
\* and with a backend that ends up answering 200 with both routes, every
\* poll under way leads to streamStatus INITIALIZED for its session.
C18_Step ==
  (/\ lastOp'.op = "pollForSessionReady.resume"
   /\ lastOp'.status # StatusReady)
    => /\ lastOp'.timers = 1
       /\ lastOp'.setupStream = 0
       /\ pollPc'[lastOp'.sid] = "timer"
       /\ state' = state
C18_PollRetriesUntilStreaming ==
  /\ [][C18_Step]_vars
  /\ \A s \in SessionIds :
       Polling(s) ~> /\ pollPc[s] = "ended"
                     /\ s \in setupDone
                     /\ state.streamStatus = "INITIALIZED"
                     /\ state.sessionId = s

\* C18 witness: a retried query answered 200, with the stream set up.
C18_Witness ==
  /\ lastOp.op = "pollForSessionReady.resume"
  /\ lastOp.status = StatusReady
  /\ lastOp.retry = 1
  /\ pollPc[lastOp.sid] = "ended"
  /\ state.streamStatus = "INITIALIZED"
  /\ state.sessionId = lastOp.sid

\* C19: from an Idle controller whose last _resetStream has completed, every
\* step other than a new _startStream leaves the controller Idle.
C19_Step ==
  (endedSinceCreate /\ Idle /\ lastOp'.op # "_startStream") => Idle'
C19_StaysIdleAfterEnd == [][C19_Step]_vars

====
